---- MODULE Spec2Model ----
(***************************************************************************)
(* Model of the two scripts of pwsh-repl:                                  *)
(*   - Modules/TokenCounter/test_tiktoken.py : count_tokens and the CLI    *)
(*     block under  if __name__ == "__main__"                              *)
(*   - custom/hello_world.py : the zero-parameter tool hello               *)
(*                                                                         *)
(* One run of the token-counter script is followed statement by statement  *)
(* (pc is the position in the script).  The file system and the tokenizer  *)
(* library are the environment: the kind and contents of the paths are     *)
(* fixed at the start of the run, the tokenizer's outcome (token sequence  *)
(* or raised exception) is chosen when it is called.                       *)
(*                                                                         *)
(* A Python name is modelled as a sequence of length at most one: <<>>     *)
(* while the name is unbound, <<v>> once it is bound to v.                 *)
(***************************************************************************)
EXTENDS Integers, Sequences, FiniteSets, TLC

\* ---------------------------------------------------------------- bounds
MaxArgs == 3       \* at most this many command-line arguments after the script name
MaxTokens == 2     \* the tokenizer returns at most this many tokens
MaxCalls == 2      \* at most this many invocations of the greeting tool

\* ---------------------------------------------------------------- inputs
ScriptName == "test_tiktoken.py"
Paths == {"Hello", "notes.txt"}               \* strings that may name something on disk
FirstArgs == {"", "Hello", "notes.txt"}       \* choices for sys.argv[1]
ModelArgs == {"gpt-4", "not-a-real-model"}    \* choices for sys.argv[2]
ExtraArgs == {"extra"}                        \* choices for sys.argv[3], sys.argv[4], ...
FileContents == {"", "file body"}

\* what a path names: nothing, a regular file that reads fine, a regular file
\* whose open/read raises (permissions, invalid UTF-8, I/O error), a directory
PathKinds == {"absent", "file", "locked", "dir"}

ArgChoices(i) == IF i = 0 THEN {ScriptName}
                 ELSE IF i = 1 THEN FirstArgs
                 ELSE IF i = 2 THEN ModelArgs
                 ELSE ExtraArgs

\* sys.argv, indexed from 0 as in Python
ArgVectors == UNION {{a \in [0..n -> FirstArgs \cup ModelArgs \cup ExtraArgs \cup {ScriptName}] :
                         \A i \in 0..n : a[i] \in ArgChoices(i)} : n \in 0..MaxArgs}

\* len(sys.argv)
len(a) == Cardinality(DOMAIN a)

\* exceptions the environment raises; all of them derive from Exception
ReadErrors == {"PermissionError", "UnicodeDecodeError"}
LookupErrors == {"KeyError", "ConnectionError"}
EncodeErrors == {"ValueError"}

VARIABLES
    sys_argv,       \* the argument vector of the run
    fs_kind,        \* Paths -> PathKinds
    fs_data,        \* Paths -> contents of the file, where there is one
    pc,             \* position in the script
    text_input,     \* line 21
    text,           \* lines 26, 31, 33
    model,          \* line 35
    token_count,    \* line 37
    stdout,         \* sequence of the integers printed
    stderr,         \* sequence of diagnostics, each with the code that wrote it
    exit_status,    \* <<>> while running, <<status>> once the process ended
    traceback,      \* TRUE iff an exception reached the top level unhandled
    reads,          \* number of open() calls of the run
    tok_calls,      \* number of count_tokens calls of the run
    raised,         \* the exceptions raised in the run, each with the call that raised it
    hello_calls,    \* number of invocations of hello
    hello_returns   \* the values hello returned, in order

script_vars == <<sys_argv, fs_kind, fs_data, pc, text_input, text, model, token_count,
                 stdout, stderr, exit_status, traceback, reads, tok_calls, raised>>
hello_vars == <<hello_calls, hello_returns>>
vars == <<sys_argv, fs_kind, fs_data, pc, text_input, text, model, token_count,
          stdout, stderr, exit_status, traceback, reads, tok_calls, raised,
          hello_calls, hello_returns>>

\* ------------------------------------------------------- pure helpers
Bound(v) == v # <<>>
Val(v) == v[1]

\* os.path.isfile: TRUE only for an existing regular file
os_path_isfile_exists(p) == p \in Paths /\ fs_kind[p] # "absent"
os_path_isfile(p) == p \in Paths /\ fs_kind[p] \in {"file", "locked"}

\* `except Exception` around the file read (line 27)
ReadHandlerCatches_none(e) == FALSE
ReadHandlerCatches(e) == e \in ReadErrors \cup LookupErrors \cup EncodeErrors

\* `except Exception` inside count_tokens (line 14)
CountHandlerCatches_keyerror(e) == e = "KeyError"
CountHandlerCatches(e) == e \in ReadErrors \cup LookupErrors \cup EncodeErrors

\* the default text of line 33
DefaultText_empty == ""
DefaultText == "Hello, World!"

\* the default model of line 35
DefaultModel == "gpt-4"

\* line 35: model = sys.argv[2] if len(sys.argv) > 2 else "gpt-4"
SelectModel_last(a) == IF len(a) > 2 THEN a[len(a) - 1] ELSE DefaultModel
SelectModel(a) == IF len(a) > 2 THEN a[2] ELSE DefaultModel

\* line 26: text = f.read()
TextFromFile_path(p, data) == p
TextFromFile(p, data) == data

\* lines 14-16: what the handler of count_tokens writes and returns
CountExcept_silent(e) == [err |-> <<>>, ret |-> -1]
CountExcept(e) == [err |-> <<[by |-> "count_tokens", exc |-> e]>>, ret |-> -1]

\* line 39: if token_count >= 0
CountOk_strict(n) == n > 0
CountOk(n) == n >= 0

\* tiktoken.encoding_for_model: the outcomes of the lookup for a model name.
\* An unknown name always raises KeyError; a known one may still fail to load.
KnownModels == {"gpt-4"}
LookupOutcomes(m) == IF m \in KnownModels THEN {"ok", "ConnectionError"} ELSE {"KeyError"}

\* enc.encode: the possible lengths of the token sequence of a text.
\* The empty text has no tokens, any other text has at least one.
TokenLengths(t) == IF t = "" THEN {0} ELSE 1..MaxTokens

\* hello_world.py, hello()
hello_capital == "Hello, World!"
hello == "Hello, world!"

\* an exception nobody caught: the interpreter prints the traceback and
\* the process ends with status 1
Unhandled(e) ==
    /\ traceback' = TRUE
    /\ stderr' = Append(stderr, [by |-> "python", exc |-> e])
    /\ exit_status' = <<1>>
    /\ pc' = "exit"

\* ---------------------------------------------------------------- Init
Init ==
    /\ sys_argv \in ArgVectors
    /\ fs_kind \in [Paths -> PathKinds]
    /\ fs_data \in [Paths -> FileContents]
    /\ pc = "args"
    /\ text_input = <<>>
    /\ text = <<>>
    /\ model = <<>>
    /\ token_count = <<>>
    /\ stdout = <<>>
    /\ stderr = <<>>
    /\ exit_status = <<>>
    /\ traceback = FALSE
    /\ reads = 0
    /\ tok_calls = 0
    /\ raised = <<>>
    /\ hello_calls = 0
    /\ hello_returns = <<>>

\* ------------------------------------------------------------- actions
\* lines 20-21 and 32-33
Main_args ==
    /\ pc = "args"
    /\ IF len(sys_argv) > 1
       THEN /\ text_input' = <<sys_argv[1]>>
            /\ text' = text
            /\ pc' = "isfile"
       ELSE /\ text' = <<DefaultText>>
            /\ text_input' = text_input
            /\ pc' = "model"
    /\ UNCHANGED <<sys_argv, fs_kind, fs_data, model, token_count, stdout, stderr,
                   exit_status, traceback, reads, tok_calls, raised, hello_vars>>

\* lines 23 and 30-31
Main_isfile ==
    /\ pc = "isfile"
    /\ IF os_path_isfile(Val(text_input))
       THEN /\ pc' = "open"
            /\ text' = text
       ELSE /\ text' = text_input
            /\ pc' = "model"
    /\ UNCHANGED <<sys_argv, fs_kind, fs_data, text_input, model, token_count, stdout,
                   stderr, exit_status, traceback, reads, tok_calls, raised, hello_vars>>

\* lines 27-29: the handler of the file read
ReadFailed_fallthrough(e) ==
    /\ stderr' = Append(stderr, [by |-> "main", exc |-> e])
    /\ text' = <<"">>
    /\ pc' = "model"
    /\ UNCHANGED <<exit_status, traceback>>
ReadFailed(e) ==
    /\ stderr' = Append(stderr, [by |-> "main", exc |-> e])
    /\ exit_status' = <<1>>
    /\ pc' = "exit"
    /\ UNCHANGED <<text, traceback>>

\* lines 24-29
Main_read ==
    /\ pc = "open"
    /\ reads' = reads + 1
    /\ IF fs_kind[Val(text_input)] = "file"
       THEN /\ text' = <<TextFromFile(Val(text_input), fs_data[Val(text_input)])>>
            /\ pc' = "model"
            /\ UNCHANGED <<stderr, exit_status, traceback, raised>>
       ELSE \E e \in ReadErrors :
              /\ raised' = Append(raised, [in |-> "read", exc |-> e])
              /\ IF ReadHandlerCatches(e)
                 THEN ReadFailed(e)
                 ELSE /\ Unhandled(e)
                      /\ text' = text
    /\ UNCHANGED <<sys_argv, fs_kind, fs_data, text_input, model, token_count, stdout,
                   tok_calls, hello_vars>>

\* line 35
Main_model ==
    /\ pc = "model"
    /\ model' = <<SelectModel(sys_argv)>>
    /\ pc' = "call"
    /\ UNCHANGED <<sys_argv, fs_kind, fs_data, text_input, text, token_count, stdout,
                   stderr, exit_status, traceback, reads, tok_calls, raised, hello_vars>>

\* the result of count_tokens when the tokenizer raised e (lines 14-16)
CountRaised(e) ==
    IF CountHandlerCatches(e)
    THEN /\ stderr' = stderr \o CountExcept(e).err
         /\ token_count' = <<CountExcept(e).ret>>
         /\ pc' = "branch"
         /\ UNCHANGED <<exit_status, traceback>>
    ELSE /\ Unhandled(e)
         /\ token_count' = token_count

\* line 37 (the call) and line 11
count_tokens_lookup ==
    /\ pc = "call"
    /\ tok_calls' = tok_calls + 1
    /\ \E o \in LookupOutcomes(Val(model)) :
          IF o = "ok"
          THEN /\ pc' = "encode"
               /\ UNCHANGED <<token_count, stderr, exit_status, traceback, raised>>
          ELSE /\ raised' = Append(raised, [in |-> "lookup", exc |-> o])
               /\ CountRaised(o)
    /\ UNCHANGED <<sys_argv, fs_kind, fs_data, text_input, text, model, stdout,
                   reads, hello_vars>>

\* lines 12-13
count_tokens_encode ==
    /\ pc = "encode"
    /\ \/ \E n \in TokenLengths(Val(text)) :
            /\ token_count' = <<n>>
            /\ pc' = "branch"
            /\ UNCHANGED <<stderr, exit_status, traceback, raised>>
       \/ \E e \in EncodeErrors :
            /\ raised' = Append(raised, [in |-> "encode", exc |-> e])
            /\ CountRaised(e)
    /\ UNCHANGED <<sys_argv, fs_kind, fs_data, text_input, text, model, stdout,
                   reads, tok_calls, hello_vars>>

\* lines 39-43
Main_exit ==
    /\ pc = "branch"
    /\ IF CountOk(Val(token_count))
       THEN /\ stdout' = Append(stdout, Val(token_count))
            /\ exit_status' = <<0>>
       ELSE /\ stdout' = stdout
            /\ exit_status' = <<1>>
    /\ pc' = "exit"
    /\ UNCHANGED <<sys_argv, fs_kind, fs_data, text_input, text, model, token_count,
                   stderr, traceback, reads, tok_calls, raised, hello_vars>>

\* hello_world.py: one invocation of the tool
Hello ==
    /\ hello_calls < MaxCalls
    /\ hello_calls' = hello_calls + 1
    /\ hello_returns' = Append(hello_returns, hello)
    /\ UNCHANGED script_vars

ScriptStep ==
    \/ Main_args
    \/ Main_isfile
    \/ Main_read
    \/ Main_model
    \/ count_tokens_lookup
    \/ count_tokens_encode
    \/ Main_exit

Next ==
    \/ ScriptStep
    \/ Hello

Spec == Init /\ [][Next]_vars

\* the interpreter runs the script to its end: a statement that can run, runs
FairSpec == Spec /\ WF_vars(ScriptStep)

\* ------------------------------------------------------------ properties
Done == pc = "exit"
HasArg == len(sys_argv) > 1
RaisedIn(where) == \E i \in DOMAIN raised : raised[i].in = where
TokenizerRaised == RaisedIn("lookup") \/ RaisedIn("encode")
DiagnosticsBy(who) == Cardinality({i \in DOMAIN stderr : stderr[i].by = who})

\* C1: a finished run has exit status 0 exactly when count_tokens was reached
\* and returned a value >= 0, and then exactly that value is on standard
\* output; every other finished run has status 1 and an empty standard
\* output; nothing is printed before the run ends.
C1_ExitZeroIffCountPrinted ==
    /\ ~Done => stdout = <<>>
    /\ Done =>
        /\ (exit_status = <<0>>) <=> (Bound(token_count) /\ Val(token_count) >= 0)
        /\ (exit_status = <<0>>) <=> (Len(stdout) = 1)
        /\ exit_status = <<0>> => stdout = token_count
        /\ exit_status # <<0>> => exit_status = <<1>> /\ stdout = <<>>

\* C1 witness: the empty text was counted, 0 was printed and the status is 0
C1_Witness ==
    /\ Done
    /\ token_count = <<0>>
    /\ stdout = <<0>>
    /\ exit_status = <<0>>

\* C2: once count_tokens has been called and control has left it, it has
\* returned a value (no exception left it); if the lookup or the encoding
\* raised, the value is -1 and count_tokens wrote one diagnostic; otherwise
\* the value is a token-sequence length, >= 0 and so never -1.
C2_CountTokensNeverPropagates ==
    (tok_calls > 0 /\ pc \in {"branch", "exit"}) =>
        /\ Bound(token_count)
        /\ ~traceback
        /\ IF TokenizerRaised
           THEN Val(token_count) = -1 /\ DiagnosticsBy("count_tokens") = 1
           ELSE /\ Val(token_count) >= 0
                /\ Val(token_count) \in TokenLengths(Val(text))
                /\ DiagnosticsBy("count_tokens") = 0

\* C2 witness: the lookup succeeded, the encoding raised, -1 came back
C2_Witness ==
    /\ pc = "branch"
    /\ RaisedIn("encode")
    /\ token_count = <<-1>>

\* C3 as stated: an argument naming something that cannot be read as a file,
\* a directory included, ends the run with status 1 and an empty standard
\* output.
C3_Original ==
    (Done /\ HasArg /\ sys_argv[1] \in Paths /\ fs_kind[sys_argv[1]] \in {"locked", "dir"}) =>
        exit_status = <<1>> /\ stdout = <<>>

\* C3 amended: an argument naming an existing regular file whose read fails
\* ends the run with status 1 and an empty standard output; an argument
\* naming a directory is never opened and is taken as the literal text.
C3_UnreadableFileExitsOne ==
    /\ (Done /\ HasArg /\ sys_argv[1] \in Paths /\ fs_kind[sys_argv[1]] = "locked") =>
            exit_status = <<1>> /\ stdout = <<>> /\ reads = 1
    /\ (HasArg /\ sys_argv[1] \in Paths /\ fs_kind[sys_argv[1]] = "dir") =>
            /\ reads = 0
            /\ ~RaisedIn("read")
            /\ Bound(text) => text = <<sys_argv[1]>>

\* C3 witness: the read of a regular file failed and the run ended with 1
C3_Witness ==
    /\ Done
    /\ HasArg
    /\ sys_argv[1] \in Paths
    /\ fs_kind[sys_argv[1]] = "locked"
    /\ exit_status = <<1>>
    /\ stdout = <<>>

\* C4: with a first argument, the text is the contents of the file when the
\* argument names a regular file that was read, and the argument itself when
\* it names no regular file; in that case open() is never called.
C4_TextIsFileContentsOrLiteral ==
    HasArg =>
        IF sys_argv[1] \in Paths /\ fs_kind[sys_argv[1]] \in {"file", "locked"}
        THEN /\ Bound(text) => (fs_kind[sys_argv[1]] = "file" /\ reads = 1
                                  /\ text = <<fs_data[sys_argv[1]]>>)
             /\ tok_calls > 0 => Bound(text)
        ELSE /\ reads = 0
             /\ Bound(text) => text = <<sys_argv[1]>>
             /\ tok_calls > 0 => Bound(text)

\* C4 witness: the argument named a file and its contents, not its name,
\* went to count_tokens
C4_Witness ==
    /\ tok_calls = 1
    /\ HasArg
    /\ sys_argv[1] = "notes.txt"
    /\ fs_kind["notes.txt"] = "file"
    /\ text = <<"file body">>

\* C5: when the file read raised, the run is over at once with status 1:
\* one diagnostic, written by the CLI block, count_tokens not called, nothing
\* on standard output, model never assigned.
C5_ReadFailureExitsAtOnce ==
    RaisedIn("read") =>
        /\ Done
        /\ exit_status = <<1>>
        /\ stderr = <<[by |-> "main", exc |-> raised[1].exc]>>
        /\ tok_calls = 0
        /\ token_count = <<>>
        /\ stdout = <<>>
        /\ model = <<>>

\* C5 witness: a read raised although a model argument was given
C5_Witness ==
    /\ RaisedIn("read")
    /\ len(sys_argv) > 2
    /\ Done

\* C6: when count_tokens returned -1, the finished run has status 1, an
\* empty standard output and exactly one diagnostic, written by count_tokens.
C6_TokenizerFailureExitsOne ==
    (Done /\ token_count = <<-1>>) =>
        /\ exit_status = <<1>>
        /\ stdout = <<>>
        /\ Len(stderr) = 1
        /\ stderr[1].by = "count_tokens"
        /\ DiagnosticsBy("main") = 0

\* C6 witness: an unknown model made the lookup raise and the run ended
C6_Witness ==
    /\ Done
    /\ token_count = <<-1>>
    /\ model = <<"not-a-real-model">>
    /\ RaisedIn("lookup")

\* C7: the model is sys.argv[2] when there is one, whether the text came
\* from a file or from the argument, and "gpt-4" otherwise; without
\* arguments the text is "Hello, World!"; the text never depends on the
\* model argument nor on later arguments.
C7_ModelIsSecondArgument ==
    /\ Bound(model) =>
          /\ len(sys_argv) > 2 => model = <<sys_argv[2]>>
          /\ len(sys_argv) <= 2 => model = <<"gpt-4">>
          /\ Bound(text)
    /\ (Bound(text) /\ ~HasArg) => text = <<"Hello, World!">>
    /\ (Bound(text) /\ HasArg) =>
          \/ text = <<sys_argv[1]>> /\ reads = 0
          \/ sys_argv[1] \in Paths /\ text = <<fs_data[sys_argv[1]]>> /\ reads = 1

\* C7 witness: three arguments, the first read as a file, the second taken
\* as the model
C7_Witness ==
    /\ len(sys_argv) = 4
    /\ reads = 1
    /\ Bound(text)
    /\ model = <<"not-a-real-model">>

\* C8 as stated: a run without arguments ends with status 0 and one positive
\* integer printed.
C8_Original ==
    (Done /\ ~HasArg) =>
        exit_status = <<0>> /\ Len(stdout) = 1 /\ stdout[1] > 0

\* C8 amended: a run without arguments calls count_tokens on
\* "Hello, World!" with model "gpt-4"; it ends with status 0 and one
\* positive integer printed unless the tokenizer raised, and with status 1
\* and nothing printed if it did.
C8_NoArgsPrintsPositive ==
    (Done /\ ~HasArg) =>
        /\ text = <<"Hello, World!">>
        /\ model = <<"gpt-4">>
        /\ tok_calls = 1
        /\ IF TokenizerRaised
           THEN exit_status = <<1>> /\ stdout = <<>>
           ELSE exit_status = <<0>> /\ Len(stdout) = 1 /\ stdout[1] > 0

\* C8 witness: no arguments, the tokenizer succeeded, a positive count was
\* printed
C8_Witness ==
    /\ Done
    /\ ~HasArg
    /\ ~TokenizerRaised
    /\ exit_status = <<0>>
    /\ Len(stdout) = 1
    /\ stdout[1] > 0

\* C9: every invocation of hello returns "Hello, world!", whatever came
\* before it; every invocation returns (none fails); an invocation changes
\* nothing of the other script's state.
C9_HelloAlwaysGreets ==
    /\ [](/\ Len(hello_returns) = hello_calls
          /\ \A i \in DOMAIN hello_returns : hello_returns[i] = "Hello, world!")
    /\ [][hello_calls' # hello_calls =>
            /\ hello_calls' = hello_calls + 1
            /\ hello_returns' = Append(hello_returns, "Hello, world!")
            /\ UNCHANGED script_vars]_vars

\* C9 witness: hello was invoked more than once, in the middle of a run
C9_Witness ==
    /\ hello_calls = MaxCalls
    /\ Len(hello_returns) = MaxCalls
    /\ pc = "encode"

\* C10: every run ends, with status 0 or 1 and without an unhandled
\* exception; open() is called at most once and count_tokens at most once.
C10_TerminatesWithoutCrash ==
    /\ <>Done
    /\ [](/\ ~traceback
          /\ reads <= 1
          /\ tok_calls <= 1
          /\ Len(raised) <= 1
          /\ Done <=> Bound(exit_status)
          /\ Done => exit_status \in {<<0>>, <<1>>})

\* C10 witness: a run that read a file, called the tokenizer, saw it raise
\* and ended
C10_Witness ==
    /\ Done
    /\ reads = 1
    /\ tok_calls = 1
    /\ TokenizerRaised
    /\ exit_status = <<1>>

====
